---------------------------- MODULE Spec2Model ----------------------------
(***************************************************************************)
(* Trade-remedy analysis scripts:                                          *)
(*   add_cvd_recepient_map.py  cases against each trading partner, mapped  *)
(*   add_cvd_world_map.py      cases by Member/Observer and type, mapped   *)
(*   prod_analysis.py          chapter/product counts and top partners     *)
(*                                                                         *)
(* Text is a sequence of one-character strings, so that splitting,         *)
(* stripping, substring search and ordering are computed character by      *)
(* character.  A cell of a table is a record [kind, val, n]:               *)
(*   kind = "str"   a Python str, val its characters                       *)
(*   kind = "nan"   float NaN (an empty spreadsheet cell)                  *)
(*   kind = "none"  Python None                                            *)
(*   kind = "num"   a number, n its value                                  *)
(*   kind = "geom"  a geometry of the reference table, n its identity      *)
(* A table (DataFrame) is a sequence of columns [name, cells].             *)
(*                                                                         *)
(* SpecMap runs the two map scripts on every small sheet, SpecClean        *)
(* applies clean_and_split to every small column of raw values, SpecTop    *)
(* applies get_top_partners the way main does.                             *)
(***************************************************************************)
EXTENDS Integers, Sequences, FiniteSets

VARIABLES
    pc,               \* position of the running script
    script,           \* which script runs: "recipient", "world", "clean", "top"
    df,               \* the table main() loaded with read_excel
    i,                \* index of the remedy type main()'s loop is at
    df_filtered,      \* get_world_with_data_trading_partners: df_filtered
    cases_count,      \* get_world_with_data[_trading_partners]: cases_count
    world_with_data,  \* the joined table returned to main()
    saved,            \* the files plot_world_map wrote: [path, title, labels]
    data_column,      \* clean_and_split: the argument
    split_items,      \* clean_and_split: split_items
    flattened_items,  \* clean_and_split: flattened_items (the result)
    data,             \* get_top_partners: the data argument
    top_n,            \* get_top_partners: the top_n argument
    chapters,         \* get_top_partners: the chapters argument
    top_partners      \* get_top_partners: the result, <<[chapter, ranking]>>

vars == <<pc, script, df, i, df_filtered, cases_count, world_with_data, saved,
          data_column, split_items, flattened_items,
          data, top_n, chapters, top_partners>>

mapVars == <<df, i, df_filtered, cases_count, world_with_data, saved>>
cleanVars == <<data_column, split_items, flattened_items>>
topVars == <<data, top_n, chapters, top_partners>>

---------------------------------------------------------------------------
(* Bounds of the model. *)
MaxRows == 2
MaxCol == 3
MaxData == 3
MaxTopN == 2

---------------------------------------------------------------------------
(* Characters, in code point order. *)
Ascii ==
    <<" ", "!", "#", ",", "-", ".", "/",
      "0", "1", "2", "3", "4", "5", "6", "7", "8", "9",
      "A", "B", "C", "D", "E", "F", "G", "H", "I", "J", "K", "L", "M",
      "N", "O", "P", "Q", "R", "S", "T", "U", "V", "W", "X", "Y", "Z", "_",
      "a", "b", "c", "d", "e", "f", "g", "h", "i", "j", "k", "l", "m",
      "n", "o", "p", "q", "r", "s", "t", "u", "v", "w", "x", "y", "z">>

Code(c) == CHOOSE k \in 1..Len(Ascii) : Ascii[k] = c

Whitespace == {" ", "\t", "\n", "\r"}

(* a < b for Python str values: lexicographic by code point. *)
RECURSIVE StrLess(_, _)
StrLess(a, b) ==
    IF b = <<>> THEN FALSE
    ELSE IF a = <<>> THEN TRUE
    ELSE IF Head(a) = Head(b) THEN StrLess(Tail(a), Tail(b))
    ELSE Code(Head(a)) < Code(Head(b))

(* sep occurs in s at position k. *)
IsAt(s, sep, k) ==
    /\ k >= 1
    /\ k + Len(sep) - 1 <= Len(s)
    /\ \A j \in 1..Len(sep) : s[k + j - 1] = sep[j]

(* pat in s: plain substring search (the patterns used hold no regex       *)
(* metacharacter: letters, digits, '-', ',' and ' ' match themselves).     *)
Contains(s, pat) == \E k \in 1..(Len(s) - Len(pat) + 1) : IsAt(s, pat, k)

(* s.find(sep) + 1, or 0 when sep does not occur. *)
Find(s, sep) ==
    IF Contains(s, sep)
    THEN CHOOSE k \in 1..Len(s) :
            /\ IsAt(s, sep, k)
            /\ \A j \in 1..(k - 1) : ~IsAt(s, sep, j)
    ELSE 0

(* s.split(sep) for a non-empty sep. *)
RECURSIVE Split(_, _)
Split(s, sep) ==
    LET k == Find(s, sep)
    IN  IF k = 0 THEN <<s>>
        ELSE <<SubSeq(s, 1, k - 1)>> \o Split(SubSeq(s, k + Len(sep), Len(s)), sep)

RECURSIVE LStrip(_)
LStrip(s) ==
    IF s # <<>> /\ Head(s) \in Whitespace THEN LStrip(Tail(s)) ELSE s

RECURSIVE RStrip(_)
RStrip(s) ==
    IF s # <<>> /\ s[Len(s)] \in Whitespace THEN RStrip(SubSeq(s, 1, Len(s) - 1)) ELSE s

(* s.strip() *)
Strip(s) == RStrip(LStrip(s))

---------------------------------------------------------------------------
(* Cells. *)
Str(t) == [kind |-> "str", val |-> t, n |-> 0]
NaN == [kind |-> "nan", val |-> <<>>, n |-> 0]
None == [kind |-> "none", val |-> <<>>, n |-> 0]
Num(k) == [kind |-> "num", val |-> <<>>, n |-> k]

Digits == <<"0", "1", "2", "3", "4", "5", "6", "7", "8", "9">>

(* str(k) for an integer k >= 0. *)
RECURSIVE IntStr(_)
IntStr(k) ==
    IF k < 10 THEN <<Digits[k + 1]>>
    ELSE IntStr(k \div 10) \o <<Digits[(k % 10) + 1]>>

(* The mutant of StrOf that renders None the way a float NaN is rendered. *)
StrOfNoneAsNan(item) ==
    CASE item.kind = "str" -> item.val
      [] item.kind = "none" -> <<"n", "a", "n">>
      [] item.kind = "nan" -> <<"n", "a", "n">>
      [] item.kind = "num" -> IntStr(item.n)

(* str(item) *)
StrOf(item) ==
    CASE item.kind = "str" -> item.val
      [] item.kind = "none" -> <<"N", "o", "n", "e">>
      [] item.kind = "nan" -> <<"n", "a", "n">>
      [] item.kind = "num" -> IntStr(item.n)

---------------------------------------------------------------------------
(* prod_analysis.py: clean_and_split *)

CommaSpace == <<",", " ">>

(* [str(item).split(", ") for item in data_column] *)
SplitItemsOf(col) == [k \in 1..Len(col) |-> Split(StrOf(col[k]), CommaSpace)]

(* [item.strip() for sublist in split_items for item in sublist] *)
RECURSIVE FlattenStrip(_)
FlattenStrip(lists) ==
    IF lists = <<>> THEN <<>>
    ELSE [k \in 1..Len(Head(lists)) |-> Strip(Head(lists)[k])] \o FlattenStrip(Tail(lists))

clean_and_split(col) == FlattenStrip(SplitItemsOf(col))

(* The raw field values the function is applied to. *)
RawCells ==
    { None, NaN,
      Str(<<"6", "2", ",", " ", "6", "3">>),
      Str(<<"6", "2", ",", "6", "3">>),
      Str(<<"6", "4">>),
      Str(<<"6", "2", ",", " ">>),
      Str(<<" ", "6", "4", " ">>) }

SeqsUpTo(S, m) == UNION {[1..k -> S] : k \in 0..m}

InitClean ==
    /\ script = "clean"
    /\ pc = "split"
    /\ data_column \in SeqsUpTo(RawCells, MaxCol)
    /\ split_items = <<>>
    /\ flattened_items = <<>>
    /\ df = <<>> /\ i = 1 /\ df_filtered = <<>> /\ cases_count = <<>>
    /\ world_with_data = <<>> /\ saved = <<>>
    /\ data = <<>> /\ top_n = 1 /\ chapters = <<>> /\ top_partners = <<>>

SplitItems ==
    /\ script = "clean" /\ pc = "split"
    /\ split_items' = SplitItemsOf(data_column)
    /\ pc' = "flatten"
    /\ UNCHANGED <<script, data_column, flattened_items, mapVars, topVars>>

FlattenItems ==
    /\ script = "clean" /\ pc = "flatten"
    /\ flattened_items' = FlattenStrip(split_items)
    /\ pc' = "done"
    /\ UNCHANGED <<script, data_column, split_items, mapVars, topVars>>

NextClean == SplitItems \/ FlattenItems

SpecClean == InitClean /\ [][NextClean]_vars

---------------------------------------------------------------------------
(* pandas: tables, boolean indexing, groupby, merge, fillna *)

HasCol(t, name) == \E c \in 1..Len(t) : t[c].name = name

Col(t, name) == t[CHOOSE c \in 1..Len(t) : t[c].name = name].cells

NRows(t) == IF t = <<>> THEN 0 ELSE Len(t[1].cells)

(* t[name] = cells: replaces the column when it exists, appends it otherwise. *)
SetCol(t, name, cells) ==
    IF HasCol(t, name)
    THEN [c \in 1..Len(t) |->
            IF t[c].name = name THEN [name |-> name, cells |-> cells] ELSE t[c]]
    ELSE Append(t, [name |-> name, cells |-> cells])

(* The rows idx[1], idx[2], ... of t; row 0 is a row of missing values. *)
Take(t, idx) ==
    [c \in 1..Len(t) |->
        [name |-> t[c].name,
         cells |-> [k \in 1..Len(idx) |->
                        IF idx[k] = 0 THEN NaN ELSE t[c].cells[idx[k]]]]]

Where(mask) == SelectSeq([k \in 1..Len(mask) |-> k], LAMBDA k : mask[k])

(* t[mask] *)
Filter(t, mask) == Take(t, Where(mask))

NotNA(cell) == cell.kind \notin {"nan", "none"}

(* A column read from a sheet has the .str accessor unless every cell of it *)
(* is empty: read_excel then gives it dtype float64, and .str raises        *)
(* AttributeError.                                                          *)
HasStrAccessor(cells) ==
    \/ cells = <<>>
    \/ \E k \in 1..Len(cells) : cells[k].kind = "str"

(* cells.str.contains(pat, na=False) *)
StrContains(cells, pat) ==
    [k \in 1..Len(cells) |->
        cells[k].kind = "str" /\ Contains(cells[k].val, pat)]

(* The keys in ascending order, as groupby(sort=True) lists them. *)
RECURSIVE SortedKeys(_)
SortedKeys(S) ==
    IF S = {} THEN <<>>
    ELSE LET m == CHOOSE a \in S : \A b \in S \ {a} : StrLess(a.val, b.val)
         IN  <<m>> \o SortedKeys(S \ {m})

CountOf(cells, key) == Cardinality({k \in 1..Len(cells) : cells[k] = key})

(* The mutant of GroupBySize with dropna=False: a missing key is a group. *)
GroupBySizeKeepNA(t, by, name) ==
    LET cells == Col(t, by)
        present == {cells[k] : k \in {j \in 1..Len(cells) : NotNA(cells[j])}}
        missing == {cells[k] : k \in {j \in 1..Len(cells) : ~NotNA(cells[j])}}
        keys == SortedKeys(present) \o (IF missing = {} THEN <<>> ELSE <<NaN>>)
    IN  << [name |-> by, cells |-> keys],
           [name |-> name,
            cells |-> [k \in 1..Len(keys) |-> Num(CountOf(cells, keys[k]))]] >>

(* t.groupby(by).size().reset_index(name=name): one row per distinct       *)
(* non-missing key, in ascending key order, with the number of its rows.   *)
GroupBySize(t, by, name) ==
    LET cells == Col(t, by)
        keys == SortedKeys({cells[k] : k \in {j \in 1..Len(cells) : NotNA(cells[j])}})
    IN  << [name |-> by, cells |-> keys],
           [name |-> name,
            cells |-> [k \in 1..Len(keys) |-> Num(CountOf(cells, keys[k]))]] >>

(* t.groupby([rowkey, colkey]).size().unstack(fill_value=0).  The first    *)
(* column of the result is its index (the row keys); then one column per   *)
(* distinct column key, named by it, in ascending order.                   *)
CrossTab(t, rowkey, colkey) ==
    LET rk == Col(t, rowkey)
        ck == Col(t, colkey)
        valid == {k \in 1..NRows(t) : NotNA(rk[k]) /\ NotNA(ck[k])}
        idx == SortedKeys({rk[k] : k \in valid})
        cols == SortedKeys({ck[k] : k \in valid})
    IN  << [name |-> rowkey, cells |-> idx] >> \o
        [c \in 1..Len(cols) |->
            [name |-> cols[c].val,
             cells |-> [r \in 1..Len(idx) |->
                 Num(Cardinality({k \in valid : rk[k] = idx[r] /\ ck[k] = cols[c]}))]]]

LowerChar(c) ==
    IF Code(c) >= Code("A") /\ Code(c) <= Code("Z")
    THEN Ascii[Code(c) + (Code("a") - Code("A"))]
    ELSE c

(* s.lower() *)
Lower(s) == [k \in 1..Len(s) |-> LowerChar(s[k])]

(* s.replace(" ", "_") *)
ReplaceSpace(s) == [k \in 1..Len(s) |-> IF s[k] = " " THEN "_" ELSE s[k]]

(* The mutant of KeyEq that matches join keys ignoring case. *)
KeyEqNoCase(a, b) ==
    IF a.kind = "str" /\ b.kind = "str" THEN Lower(a.val) = Lower(b.val) ELSE a = b

(* Two join keys match when they are equal values. *)
KeyEq(a, b) == a = b

Matches(lkey, rkeys) ==
    SelectSeq([k \in 1..Len(rkeys) |-> k], LAMBDA k : KeyEq(lkey, rkeys[k]))

(* The (left row, right row) pairs of a left join, from left row l on:     *)
(* every left row in order, once per matching right row, and once with     *)
(* right row 0 when nothing matches.                                       *)
RECURSIVE JoinPairs(_, _, _)
JoinPairs(lkeys, rkeys, l) ==
    IF l > Len(lkeys) THEN <<>>
    ELSE LET m == Matches(lkeys[l], rkeys)
         IN  (IF m = <<>> THEN << [l |-> l, r |-> 0] >>
              ELSE [k \in 1..Len(m) |-> [l |-> l, r |-> m[k]]])
             \o JoinPairs(lkeys, rkeys, l + 1)

(* The mutant of MergeLeft that joins with how='inner'. *)
MergeInner(left, right, left_on, right_on, carried) ==
    LET all == JoinPairs(Col(left, left_on), Col(right, right_on), 1)
        p == SelectSeq(all, LAMBDA x : x.r # 0)
    IN  Take(left, [k \in 1..Len(p) |-> p[k].l])
        \o Take(carried, [k \in 1..Len(p) |-> p[k].r])

(* left.merge(right, how='left', left_on=left_on, right_on=right_on);      *)
(* carried are the columns of right that the result holds.                 *)
MergeLeft(left, right, left_on, right_on, carried) ==
    LET p == JoinPairs(Col(left, left_on), Col(right, right_on), 1)
    IN  Take(left, [k \in 1..Len(p) |-> p[k].l])
        \o Take(carried, [k \in 1..Len(p) |-> p[k].r])

(* t.fillna(0, inplace=True) *)
FillNa0(t) ==
    [c \in 1..Len(t) |->
        [name |-> t[c].name,
         cells |-> [k \in 1..Len(t[c].cells) |->
                        IF NotNA(t[c].cells[k]) THEN t[c].cells[k] ELSE Num(0)]]]

---------------------------------------------------------------------------
(* The texts of the map scripts. *)
AntiDumping ==
    <<"A", "n", "t", "i", "-", "d", "u", "m", "p", "i", "n", "g">>

Countervailing ==
    <<"C", "o", "u", "n", "t", "e", "r", "v", "a", "i", "l", "i", "n",
      "g">>

BothRemedies ==
    <<"A", "n", "t", "i", "-", "d", "u", "m", "p", "i", "n", "g", " ", "/",
      " ", "C", "o", "u", "n", "t", "e", "r", "v", "a", "i", "l", "i", "n",
      "g">>

ColType ==
    <<"T", "y", "p", "e">>

ColTradingPartners ==
    <<"T", "r", "a", "d", "i", "n", "g", " ", "p", "a", "r", "t", "n", "e",
      "r", "s">>

ColMemberObserver ==
    <<"M", "e", "m", "b", "e", "r", "/", "O", "b", "s", "e", "r", "v", "e",
      "r">>

ColRemedyType ==
    <<"R", "e", "m", "e", "d", "y", " ", "T", "y", "p", "e">>

ColCaseCount ==
    <<"c", "a", "s", "e", "_", "c", "o", "u", "n", "t">>

ColName ==
    <<"n", "a", "m", "e">>

ColGeometry ==
    <<"g", "e", "o", "m", "e", "t", "r", "y">>

ColColor ==
    <<"c", "o", "l", "o", "r">>

LightColor ==
    <<"#", "f", "f", "e", "d", "c", "c">>

India ==
    <<"I", "n", "d", "i", "a">>

IndiaLower ==
    <<"i", "n", "d", "i", "a">>

China ==
    <<"C", "h", "i", "n", "a">>

Brazil ==
    <<"B", "r", "a", "z", "i", "l">>

USA ==
    <<"U", "S", "A">>

UnitedStates ==
    <<"U", "n", "i", "t", "e", "d", " ", "S", "t", "a", "t", "e", "s", " ",
      "o", "f", " ", "A", "m", "e", "r", "i", "c", "a">>

PathPrefix ==
    <<"t", "r", "a", "d", "e", "_", "r", "e", "m", "e", "d", "y", "_", "a",
      "n", "a", "l", "y", "s", "i", "s", "/", "w", "o", "r", "l", "d", "_",
      "m", "a", "p", "_">>

PathSuffixPartners ==
    <<"_", "a", "g", "a", "i", "n", "s", "t", "_", "t", "r", "a", "d", "i",
      "n", "g", "_", "p", "a", "r", "t", "n", "e", "r", "s", ".", "p", "n",
      "g">>

PathSuffix ==
    <<".", "p", "n", "g">>

TitleNumberOf ==
    <<"N", "u", "m", "b", "e", "r", " ", "o", "f", " ">>

TitleCasesSuffered ==
    <<" ", "C", "a", "s", "e", "s", " ", "s", "u", "f", "f", "e", "r", "e",
      "d", " ", "-", " ", "c", "o", "u", "n", "t", "r", "y", " ", "w", "i",
      "s", "e">>

TitleUseOf ==
    <<"U", "s", "e", " ", "o", "f", " ">>

TitleCountryWise ==
    <<" ", "-", " ", "C", "o", "u", "n", "t", "r", "y", "/", "R", "e", "g",
      "i", "o", "n", " ", "w", "i", "s", "e">>

Slash == <<"/">>

(* for remedy_type in ['Anti-dumping', 'Countervailing'] *)
RemedyTypes == <<AntiDumping, Countervailing>>

Geom(k) == [kind |-> "geom", val |-> <<>>, n |-> k]

(* gpd.read_file(naturalearth_lowres): the reference geometry table, one   *)
(* row per entity, here four of its entities with their name and geometry. *)
World ==
    << [name |-> ColName,
        cells |-> <<Str(India), Str(China), Str(Brazil), Str(UnitedStates)>>],
       [name |-> ColGeometry,
        cells |-> <<Geom(1), Geom(2), Geom(3), Geom(4)>>] >>

---------------------------------------------------------------------------
(* add_cvd_recepient_map.py and add_cvd_world_map.py *)

(* The sheet read_excel returns: one column per header, one cell per row.  *)
Sheet(types, partners, members) ==
    << [name |-> ColType, cells |-> types],
       [name |-> ColTradingPartners, cells |-> partners],
       [name |-> ColMemberObserver, cells |-> members] >>

TypeCells == {NaN, Str(AntiDumping), Str(Countervailing), Str(BothRemedies)}
PartnerCells == {NaN, Str(India), Str(IndiaLower), Str(China), Str(USA)}
MemberCells == {NaN, Str(India), Str(IndiaLower), Str(China)}

(* The sheets a script is run on: the columns it reads take every value,   *)
(* the column it never reads holds one value.                              *)
LoadedSheets(s) ==
    IF s = "recipient"
    THEN { Sheet([k \in 1..Len(rows) |-> rows[k][1]],
                 [k \in 1..Len(rows) |-> rows[k][2]],
                 [k \in 1..Len(rows) |-> Str(India)]) :
           rows \in SeqsUpTo(TypeCells \X PartnerCells, MaxRows) }
    ELSE { Sheet([k \in 1..Len(rows) |-> rows[k][1]],
                 [k \in 1..Len(rows) |-> Str(China)],
                 [k \in 1..Len(rows) |-> rows[k][2]]) :
           rows \in SeqsUpTo(TypeCells \X MemberCells, MaxRows) }

InitMap ==
    /\ script \in {"recipient", "world"}
    /\ pc = "get"
    /\ i = 1
    /\ df \in LoadedSheets(script)
    /\ df_filtered = <<>> /\ cases_count = <<>>
    /\ world_with_data = <<>> /\ saved = <<>>
    /\ data_column = <<>> /\ split_items = <<>> /\ flattened_items = <<>>
    /\ data = <<>> /\ top_n = 1 /\ chapters = <<>> /\ top_partners = <<>>

(* df[df['Type'].str.contains(remedy_type, na=False)] *)
FilterByType(d, remedy_type) ==
    Filter(d, StrContains(Col(d, ColType), remedy_type))

(* world.merge(cases_count, how='left', left_on='name',                    *)
(*             right_on='Trading partners'), then fillna(0)                *)
JoinTradingPartners(cc) ==
    FillNa0(MergeLeft(World, cc, ColName, ColTradingPartners, cc))

(* get_world_with_data_trading_partners(df, remedy_type), called by main.  *)
get_world_with_data_trading_partners ==
    /\ script = "recipient" /\ pc = "get"
    /\ IF HasStrAccessor(Col(df, ColType))
       THEN /\ df_filtered' = FilterByType(df, RemedyTypes[i])
            /\ cases_count' =
                   GroupBySize(df_filtered', ColTradingPartners, ColCaseCount)
            /\ world_with_data' = JoinTradingPartners(cases_count')
            /\ pc' = "plot"
       ELSE \* AttributeError at df['Type'].str: the run aborts
            /\ pc' = "error"
            /\ UNCHANGED <<df_filtered, cases_count, world_with_data>>
    /\ UNCHANGED <<script, df, i, saved, cleanVars, topVars>>

(* df['Type'].str.split('/').str[-1].str.strip() *)
RemedyTypeColumn(cells) ==
    [k \in 1..Len(cells) |->
        IF cells[k].kind = "str"
        THEN LET parts == Split(cells[k].val, Slash)
             IN  Str(Strip(parts[Len(parts)]))
        ELSE NaN]

(* world.merge(cases_count[[remedy_type]], how='left', left_on='name',     *)
(*             right_on='Member/Observer'), then fillna(0).  The right key *)
(* is the index of cases_count; the result holds the count column only.    *)
JoinMembers(cc, remedy_type) ==
    LET counts == [name |-> remedy_type, cells |-> Col(cc, remedy_type)]
    IN  FillNa0(MergeLeft(World, <<cc[1], counts>>, ColName, ColMemberObserver,
                          <<counts>>))

(* get_world_with_data(df, remedy_type), called by main. *)
get_world_with_data ==
    /\ script = "world" /\ pc = "get"
    /\ IF HasStrAccessor(Col(df, ColType))
       THEN /\ df' = SetCol(df, ColRemedyType, RemedyTypeColumn(Col(df, ColType)))
            /\ cases_count' = CrossTab(df', ColMemberObserver, ColRemedyType)
            /\ IF HasCol(Tail(cases_count'), RemedyTypes[i])
               THEN /\ world_with_data' = JoinMembers(cases_count', RemedyTypes[i])
                    /\ pc' = "plot"
               ELSE \* KeyError at cases_count[[remedy_type]]: the run aborts
                    /\ pc' = "error"
                    /\ UNCHANGED world_with_data
       ELSE \* AttributeError at df['Type'].str: the run aborts
            /\ pc' = "error"
            /\ UNCHANGED <<df, cases_count, world_with_data>>
    /\ UNCHANGED <<script, i, df_filtered, saved, cleanVars, topVars>>

(* world_with_data['color'] = '#ffedcc' *)
WithColor(t) ==
    SetCol(t, ColColor, [k \in 1..NRows(t) |-> Str(LightColor)])

(* The texts plot_world_map draws: for every row with a count > 0, the     *)
(* count as a whole number at the centroid of the row's geometry.          *)
Labels(t, count_col) ==
    LET rows == SelectSeq([k \in 1..NRows(t) |-> k],
                          LAMBDA k : Col(t, count_col)[k].n > 0)
    IN  [j \in 1..Len(rows) |->
            [at |-> Col(t, ColGeometry)[rows[j]],
             text |-> IntStr(Col(t, count_col)[rows[j]].n)]]

(* remedy_type.replace(" ", "_").lower() *)
FileKey(remedy_type) == Lower(ReplaceSpace(remedy_type))

(* main's loop: the next remedy type, or the end of the run. *)
LoopNext ==
    IF i < Len(RemedyTypes)
    THEN i' = i + 1 /\ pc' = "get"
    ELSE i' = i /\ pc' = "done"

(* add_cvd_recepient_map.py: plot_world_map(remedy_type, world_with_data,  *)
(* output_path), called by main, and the end of the loop body.             *)
plot_world_map_partners ==
    /\ script = "recipient" /\ pc = "plot"
    /\ world_with_data' = WithColor(world_with_data)
    /\ saved' = Append(saved,
          [path |-> PathPrefix \o FileKey(RemedyTypes[i]) \o PathSuffixPartners,
           title |-> TitleNumberOf \o RemedyTypes[i] \o TitleCasesSuffered,
           labels |-> Labels(world_with_data', ColCaseCount)])
    /\ LoopNext
    /\ UNCHANGED <<script, df, df_filtered, cases_count, cleanVars, topVars>>

(* add_cvd_world_map.py: plot_world_map(remedy_type, world_with_data,      *)
(* output_path), called by main, and the end of the loop body.             *)
plot_world_map ==
    /\ script = "world" /\ pc = "plot"
    /\ world_with_data' = WithColor(world_with_data)
    /\ saved' = Append(saved,
          [path |-> PathPrefix \o FileKey(RemedyTypes[i]) \o PathSuffix,
           title |-> TitleUseOf \o RemedyTypes[i] \o TitleCountryWise,
           labels |-> Labels(world_with_data', RemedyTypes[i])])
    /\ LoopNext
    /\ UNCHANGED <<script, df, df_filtered, cases_count, cleanVars, topVars>>

NextMap ==
    \/ get_world_with_data_trading_partners
    \/ plot_world_map_partners
    \/ get_world_with_data
    \/ plot_world_map

SpecMap == InitMap /\ [][NextMap]_vars

---------------------------------------------------------------------------
(* Properties of the map scripts, checked under SpecMap. *)

(* A joined table has been returned to main for the remedy type at i.      *)
Joined == script \in {"recipient", "world"} /\ pc = "plot"

(* The rows of the loaded sheet whose Type contains the remedy type.       *)
RowsContaining(remedy_type) ==
    {k \in 1..NRows(df) :
        /\ Col(df, ColType)[k].kind = "str"
        /\ Contains(Col(df, ColType)[k].val, remedy_type)}

RECURSIVE SumCounts(_)
SumCounts(cells) ==
    IF cells = <<>> THEN 0 ELSE Head(cells).n + SumCounts(Tail(cells))

(* The column of a joined table that holds the counts. *)
CountColumn ==
    IF script = "recipient" THEN ColCaseCount ELSE RemedyTypes[i]

(* C1: the table the Geo-Joiner returns has exactly the rows of the        *)
(* reference geometry table: every entity once, none dropped, none         *)
(* duplicated, whatever the aggregated counts are.                         *)
C1_JoinKeepsEveryEntityOnce ==
    Joined =>
        /\ NRows(world_with_data) = NRows(World)
        /\ Col(world_with_data, ColName) = Col(World, ColName)
        /\ Col(world_with_data, ColGeometry) = Col(World, ColGeometry)

(* C1 witness: a join in which the aggregation has two keys, one entity    *)
(* matched with a positive count and the others unmatched.                 *)
C1_Witness ==
    /\ Joined
    /\ NRows(cases_count) >= 2
    /\ \E r \in 1..NRows(world_with_data) :
           Col(world_with_data, CountColumn)[r].n > 0
    /\ \E r \in 1..NRows(world_with_data) :
           Col(world_with_data, CountColumn)[r].n = 0

(* C2: in the table get_world_with_data_trading_partners returns, the      *)
(* case_count of every entity is the number of rows of df whose Type       *)
(* contains the remedy type and whose 'Trading partners' value equals the  *)
(* entity's name exactly; an entity that is no key of the aggregation has  *)
(* case_count 0.                                                           *)
C2_CountIsExactNameMatches ==
    (Joined /\ script = "recipient") =>
        \A r \in 1..NRows(world_with_data) :
            Col(world_with_data, ColCaseCount)[r] =
                Num(Cardinality({k \in RowsContaining(RemedyTypes[i]) :
                        Col(df, ColTradingPartners)[k] =
                            Col(world_with_data, ColName)[r]}))

(* C2 witness: the aggregation has the key "india" and the alias "USA",    *)
(* and the entities India and United States of America have case_count 0.  *)
C2_Witness ==
    /\ Joined /\ script = "recipient"
    /\ Col(cases_count, ColTradingPartners) = <<Str(USA), Str(IndiaLower)>>
    /\ \A r \in 1..NRows(world_with_data) :
           Col(world_with_data, ColCaseCount)[r] = Num(0)

(* C3 as stated: the counts of cases_count sum to the number of rows of df *)
(* whose Type contains the remedy type, whatever their 'Trading partners'. *)
C3_SumIsFilteredRows ==
    (Joined /\ script = "recipient") =>
        SumCounts(Col(cases_count, ColCaseCount)) =
            Cardinality(RowsContaining(RemedyTypes[i]))

(* C3 amended: the counts of cases_count sum to the number of rows of df   *)
(* whose Type contains the remedy type and whose 'Trading partners' value  *)
(* is not missing (groupby leaves out the rows with a missing key).        *)
C3_SumIsFilteredRowsWithPartner ==
    (Joined /\ script = "recipient") =>
        SumCounts(Col(cases_count, ColCaseCount)) =
            Cardinality({k \in RowsContaining(RemedyTypes[i]) :
                            NotNA(Col(df, ColTradingPartners)[k])})

(* C3 witness: two rows pass the filter, one of them without a trading     *)
(* partner, and the counts sum to 1.                                       *)
C3_Witness ==
    /\ Joined /\ script = "recipient"
    /\ Cardinality(RowsContaining(RemedyTypes[i])) = 2
    /\ \E k \in RowsContaining(RemedyTypes[i]) :
           ~NotNA(Col(df, ColTradingPartners)[k])
    /\ SumCounts(Col(cases_count, ColCaseCount)) = 1

(* The rows of the loaded sheet that are of the remedy type, as each       *)
(* script selects them.                                                    *)
RowsOfRemedy(remedy_type) ==
    IF script = "recipient" THEN RowsContaining(remedy_type)
    ELSE {k \in 1..NRows(df) :
            RemedyTypeColumn(Col(df, ColType))[k] = Str(remedy_type)}

(* C5: when no row of the sheet is of the remedy type, the run does not    *)
(* fail for it, and the joined table has count 0 for every entity.         *)
C5_EmptySubsetIsNoError ==
    (script \in {"recipient", "world"} /\ RowsOfRemedy(RemedyTypes[i]) = {}) =>
        /\ pc # "error"
        /\ pc = "plot" =>
              \A r \in 1..NRows(world_with_data) :
                  Col(world_with_data, CountColumn)[r] = Num(0)

(* C9: a call of get_world_with_data, get_world_with_data_trading_partners *)
(* or plot_world_map leaves the table it is given unchanged.               *)
C9_CallsLeaveTheirTableUnchanged ==
    [][/\ pc = "get" => df' = df
       /\ pc = "plot" => world_with_data' = world_with_data]_vars

---------------------------------------------------------------------------
(* prod_analysis.py: Counter, most_common and get_top_partners *)

ColProductChapters ==
    <<"P", "r", "o", "d", "u", "c", "t", " ", "c", "h", "a", "p", "t", "e",
      "r", "s">>

(* The distinct values of xs in the order in which they first occur.       *)
RECURSIVE FirstSeen(_)
FirstSeen(xs) ==
    IF xs = <<>> THEN <<>>
    ELSE <<Head(xs)>> \o FirstSeen(SelectSeq(Tail(xs), LAMBDA x : x # Head(xs)))

(* Counter(xs): its items, [key, count], in insertion order. *)
CounterOf(xs) ==
    LET ks == FirstSeen(xs)
    IN  [j \in 1..Len(ks) |->
            [key |-> ks[j],
             count |-> Cardinality({k \in 1..Len(xs) : xs[k] = ks[j]})]]

(* x put into a list sorted by count descending, behind the items whose    *)
(* count is not smaller (equal counts keep their order).                   *)
RECURSIVE InsertDesc(_, _)
InsertDesc(sorted, x) ==
    IF sorted = <<>> THEN <<x>>
    ELSE IF Head(sorted).count >= x.count
         THEN <<Head(sorted)>> \o InsertDesc(Tail(sorted), x)
         ELSE <<x>> \o sorted

(* sorted(items, key=itemgetter(1), reverse=True): a stable sort. *)
RECURSIVE SortDesc(_)
SortDesc(items) ==
    IF items = <<>> THEN <<>>
    ELSE InsertDesc(SortDesc(SubSeq(items, 1, Len(items) - 1)), items[Len(items)])

(* The mutant of MostCommon that cuts the items to n before sorting them.  *)
MostCommonCutFirst(items, n) ==
    SortDesc(SubSeq(items, 1, IF n < Len(items) THEN n ELSE Len(items)))

(* Counter.most_common(n) for a number n: heapq.nlargest(n, items,         *)
(* key=itemgetter(1)), which is sorted(items, key=..., reverse=True)[:n].  *)
MostCommon(items, n) ==
    SubSeq(SortDesc(items), 1, IF n < Len(items) THEN n ELSE Len(items))

(* Counter.most_common(): every item, most common first. *)
MostCommonAll(items) == SortDesc(items)

(* d[key] = value for a dict kept as its items in insertion order. *)
DictSet(d, key, value) ==
    IF \E k \in 1..Len(d) : d[k].key = key
    THEN [k \in 1..Len(d) |->
            IF d[k].key = key THEN [key |-> key, value |-> value] ELSE d[k]]
    ELSE Append(d, [key |-> key, value |-> value])

(* data[data['Product chapters'].str.contains(str(chapter), na=False)]     *)
(* ['Trading partners']; a chapter is a str, so str(chapter) is itself.    *)
PartnersOfChapter(d, chapter) ==
    Col(Filter(d, StrContains(Col(d, ColProductChapters), chapter)),
        ColTradingPartners)

(* The loop of get_top_partners over chs, from the dict acc. *)
RECURSIVE TopPartnersLoop(_, _, _, _)
TopPartnersLoop(acc, d, chs, n) ==
    IF chs = <<>> THEN acc
    ELSE TopPartnersLoop(
             DictSet(acc, Head(chs),
                     MostCommon(CounterOf(PartnersOfChapter(d, Head(chs))), n)),
             d, Tail(chs), n)

get_top_partners(d, chs, n) == TopPartnersLoop(<<>>, d, chs, n)

(* main: [item[0] for item in                                              *)
(*        Counter(clean_and_split(data['Product chapters'])).most_common()] *)
TopChapters(d) ==
    LET items == MostCommonAll(CounterOf(clean_and_split(Col(d, ColProductChapters))))
    IN  [k \in 1..Len(items) |-> items[k].key]

ChapterCells ==
    {NaN, Str(<<"7">>), Str(<<"7", "2">>), Str(<<"6", "2", ",", " ", "7">>)}

TopPartnerCells == {Str(India), Str(China), Str(Brazil)}

(* The rows of one remedy type that main passes to get_top_partners; the   *)
(* column 'Product chapters' of the sheet they come from has dtype object. *)
DataSheets ==
    { << [name |-> ColProductChapters,
          cells |-> [k \in 1..Len(rows) |-> rows[k][1]]],
         [name |-> ColTradingPartners,
          cells |-> [k \in 1..Len(rows) |-> rows[k][2]]] >> :
      rows \in SeqsUpTo(ChapterCells \X TopPartnerCells, MaxData) }

InitTop ==
    /\ script = "top"
    /\ pc = "count"
    /\ data \in DataSheets
    /\ top_n \in 1..MaxTopN
    /\ chapters = <<>>
    /\ top_partners = <<>>
    /\ df = <<>> /\ i = 1 /\ df_filtered = <<>> /\ cases_count = <<>>
    /\ world_with_data = <<>> /\ saved = <<>>
    /\ data_column = <<>> /\ split_items = <<>> /\ flattened_items = <<>>

(* main: the chapters of the data, most common first. *)
CountChapters ==
    /\ script = "top" /\ pc = "count"
    /\ chapters' = TopChapters(data)
    /\ pc' = "top"
    /\ UNCHANGED <<script, data, top_n, top_partners, mapVars, cleanVars>>

(* get_top_partners(data, chapters, top_n) *)
GetTopPartners ==
    /\ script = "top" /\ pc = "top"
    /\ top_partners' = get_top_partners(data, chapters, top_n)
    /\ pc' = "done"
    /\ UNCHANGED <<script, data, top_n, chapters, mapVars, cleanVars>>

NextTop == CountChapters \/ GetTopPartners

SpecTop == InitTop /\ [][NextTop]_vars

---------------------------------------------------------------------------
(* Properties of clean_and_split, checked under SpecClean. *)

Returned == script = "clean" /\ pc = "done"

Trimmed(token) ==
    token = <<>> \/ (Head(token) \notin Whitespace /\ token[Len(token)] \notin Whitespace)

(* The tokens of each value alone, one value after the other. *)
RECURSIVE TokensValueByValue(_)
TokensValueByValue(col) ==
    IF col = <<>> THEN <<>>
    ELSE clean_and_split(<<Head(col)>>) \o TokensValueByValue(Tail(col))

Text62 == <<"6", "2">>
Text63 == <<"6", "3">>
Text64 == <<"6", "4">>
TextNan == <<"n", "a", "n">>
TextNone == <<"N", "o", "n", "e">>
Value62Space63 == Str(<<"6", "2", ",", " ", "6", "3">>)
Value62NoSpace63 == Str(<<"6", "2", ",", "6", "3">>)

(* C6: every token clean_and_split returns is trimmed and non-empty, and   *)
(* the result keeps the order of the values and of the tokens in a value.  *)
C6_TokensTrimmedAndNonEmpty ==
    Returned =>
        /\ \A k \in 1..Len(flattened_items) :
               Trimmed(flattened_items[k]) /\ flattened_items[k] # <<>>
        /\ flattened_items = TokensValueByValue(data_column)

(* C7: the value "62,63" is split like the value "62, 63": both yield the  *)
(* two tokens "62" and "63".                                               *)
C7_CommaWithoutSpaceSplits ==
    (Returned /\ data_column \in {<<Value62Space63>>, <<Value62NoSpace63>>}) =>
        flattened_items = <<Text62, Text63>>

(* C8 as stated: clean_and_split(["62, 63", None, "64"]) yields the tokens *)
(* ["62", "63", "nan", "64"].                                              *)
C8_NoneYieldsNan ==
    (Returned /\ data_column = <<Value62Space63, None, Str(Text64)>>) =>
        flattened_items = <<Text62, Text63, TextNan, Text64>>

(* C8 amended: every missing value contributes exactly one placeholder     *)
(* token at its position, "None" for None and "nan" for a float NaN, the   *)
(* other values' tokens being unaffected; clean_and_split(["62, 63", None, *)
(* "64"]) yields ["62", "63", "None", "64"].                               *)
C8_MissingValueYieldsItsStr ==
    Returned =>
        /\ \A k \in 1..Len(data_column) :
               ~NotNA(data_column[k]) =>
                   flattened_items =
                       clean_and_split(SubSeq(data_column, 1, k - 1))
                       \o << IF data_column[k].kind = "none" THEN TextNone ELSE TextNan >>
                       \o clean_and_split(SubSeq(data_column, k + 1, Len(data_column)))
        /\ data_column = <<Value62Space63, None, Str(Text64)>> =>
               flattened_items = <<Text62, Text63, TextNone, Text64>>

(* C8 witness: the function has returned for ["62, 63", None, "64"].       *)
C8_Witness ==
    /\ Returned
    /\ data_column = <<Value62Space63, None, Str(Text64)>>
    /\ flattened_items = <<Text62, Text63, TextNone, Text64>>

---------------------------------------------------------------------------
(* Properties of get_top_partners, checked under SpecTop. *)

Ranked == script = "top" /\ pc = "done"

(* The position at which x first occurs in xs. *)
FirstAt(xs, x) == CHOOSE k \in 1..Len(xs) : xs[k] = x /\ \A j \in 1..(k - 1) : xs[j] # x

Occurrences(xs, x) == Cardinality({k \in 1..Len(xs) : xs[k] = x})

(* C4: for each chapter the ranking has at most top_n pairs, each with the *)
(* partner's count in the filtered rows, ordered by count descending,      *)
(* equal counts in the order in which the partners are first encountered   *)
(* in the filtered rows, and no partner left out has a higher count than   *)
(* one that is in it.                                                      *)
C4_RankingIsTopNStable ==
    Ranked =>
        \A e \in 1..Len(top_partners) :
            LET partners == PartnersOfChapter(data, top_partners[e].key)
                ranking == top_partners[e].value
                listed == {ranking[j].key : j \in 1..Len(ranking)}
            IN  /\ Len(ranking) <= top_n
                /\ \A j \in 1..Len(ranking) :
                       /\ Occurrences(partners, ranking[j].key) >= 1
                       /\ ranking[j].count = Occurrences(partners, ranking[j].key)
                /\ \A j \in 1..(Len(ranking) - 1) :
                       \/ ranking[j].count > ranking[j + 1].count
                       \/ /\ ranking[j].count = ranking[j + 1].count
                          /\ FirstAt(partners, ranking[j].key)
                                 < FirstAt(partners, ranking[j + 1].key)
                /\ \A k \in 1..Len(partners) :
                       partners[k] \notin listed =>
                           \A j \in 1..Len(ranking) :
                               Occurrences(partners, partners[k]) <= ranking[j].count

(* C4 witness: a ranking cut to top_n = 2 whose two partners are tied, in  *)
(* first-encountered order, with a third partner left out.                 *)
C4_Witness ==
    /\ Ranked /\ top_n = 2
    /\ \E e \in 1..Len(top_partners) :
           /\ top_partners[e].value =
                  << [key |-> Str(China), count |-> 1], [key |-> Str(India), count |-> 1] >>
           /\ PartnersOfChapter(data, top_partners[e].key) =
                  <<Str(China), Str(India), Str(Brazil)>>

(* The chapter codes of a row: the tokens of its 'Product chapters' value. *)
ChapterCodes(cell) ==
    LET tokens == clean_and_split(<<cell>>)
    IN  {tokens[k] : k \in 1..Len(tokens)}

(* C10: the count a ranking reports for a partner is the number of rows    *)
(* with that partner whose chapter list has the chapter among its codes; a *)
(* row whose codes merely contain the chapter as a part is not counted.    *)
C10_CountsOverRowsListingTheChapter ==
    Ranked =>
        \A e \in 1..Len(top_partners) :
            \A j \in 1..Len(top_partners[e].value) :
                top_partners[e].value[j].count =
                    Cardinality({k \in 1..NRows(data) :
                        /\ Col(data, ColTradingPartners)[k] = top_partners[e].value[j].key
                        /\ NotNA(Col(data, ColProductChapters)[k])
                        /\ top_partners[e].key \in
                               ChapterCodes(Col(data, ColProductChapters)[k])})

===========================================================================
